---- MODULE Spec2Model ----
(***************************************************************************)
(* Model of build.py, the package builder of ccpm.                         *)
(*                                                                         *)
(* Python strings are sequences of tokens: a token is a maximal run of     *)
(* alphanumeric characters or one punctuation character, so that string    *)
(* concatenation is \o and "a" + "." + "b.1" equals "a.b" + "." + "1".     *)
(* Python bytes are records [bytes |-> <string>].  A Python dict is the    *)
(* sequence of its <<key, value>> pairs in insertion order.  The          *)
(* functions sha256, zlib, base64 and json.dumps build one token that      *)
(* spells out their argument, which keeps them injective and lets none of  *)
(* them be confused with another.                                          *)
(***************************************************************************)
EXTENDS Integers, Sequences, FiniteSets, TLC

\* ------------------------------------------------------------------ bounds
NumPkgs == 2
MaxFiles == 2
MaxDepth == 2
MaxSpecial == 1

\* ------------------------------------------------------- program constants
PACKAGES_ROOT_SRC_DIR == <<".", "/", "packages">>
PACKAGES_SRC_DIR == <<"source">>
MANIFEST_FILE == <<"manifest", ".", "json">>
PACKAGES_POOL_DIR == <<".", "/", "pool">>
INDEX_FILE == <<"index", ".", "json">>

\* ------------------------------------------------------------ input space
AllNames == << <<"a">>, <<"a", ".", "b">>, <<"c">>, <<"d">> >>
PkgNames == {AllNames[i] : i \in 1..NumPkgs}
Versions == { <<"1">>, <<"b", ".", "1">> }
DirChain == << <<"sub">>, <<"deep">>, <<"er">>, <<"est">> >>
FileNames == << <<"a", ".", "txt">>, <<"b", ".", "txt">> >>
Range(s) == {s[i] : i \in DOMAIN s}
Perms(S) == {s \in [1..Cardinality(S) -> S] : Range(s) = S}
\* The one element of a singleton set; {F(v) : v \in {x}} evaluates x once.
The(S) == CHOOSE r \in S : TRUE
\* The k-th smallest element of a set of numbers.
Nth(S, k) == CHOOSE i \in S : Cardinality({j \in S : j < i}) = k - 1

\* ------------------------------------------------------------ Python dict
DictKeys(d) == {d[i][1] : i \in DOMAIN d}
DictGet(d, k) == d[CHOOSE i \in DOMAIN d : d[i][1] = k][2]
DictSet(d, k, v) ==
    IF k \in DictKeys(d)
    THEN [i \in DOMAIN d |-> IF d[i][1] = k THEN <<k, v>> ELSE d[i]]
    ELSE Append(d, <<k, v>>)

\* Values a Python expression can produce here.
None == [t |-> "none", v |-> <<>>]
PyDict(d) == [t |-> "dict", v |-> d]
PyList(l) == [t |-> "list", v |-> l]
Raise(e) == [t |-> "raise", v |-> <<e>>]

\* ------------------------------------------------------------------ state
VARIABLES
    manifests,  \* ./packages/<name>/manifest.json, per package directory
    sources,    \* ./packages/<name>/source/**: relative path -> file
    poolDir,    \* whether ./pool exists
    pool,       \* the files of ./pool: path -> bytes
    pc,         \* position of the driver
    queue,      \* the packages the driver loop has not finished, current first
    status,     \* per package: how far its build has got
    manifest,   \* build_package: the document being assembled
    todo,       \* build_package: the paths still to read
    data,       \* write_package: the encoded payload
    packages,   \* __main__: the index being accumulated
    err,        \* the uncaught exception, once the run has aborted
    runs,       \* how many more times the build will be run
    hist        \* what this run and the previous one did (observation only)

vars == <<manifests, sources, poolDir, pool, pc, queue, status, manifest, todo,
          data, packages, err, runs, hist>>

inputs == <<manifests, sources, poolDir>>
Entries == DOMAIN manifests

\* ------------------------------------------------------------ conversions
RECURSIVE Join(_)
Join(s) == IF s = <<>> THEN "" ELSE Head(s) \o Join(Tail(s))

encode(s) == [bytes |-> s]
decode(b) == b.bytes
sha256_hexdigest(b) == << "sha256(" \o Join(b.bytes) \o ")" >>
json_dumps(obj) == << "json(" \o ToString(obj) \o ")" >>
zlib_compress(b) == [bytes |-> << "zlib(" \o Join(b.bytes) \o ")" >>]
b64encode(b) == [bytes |-> << "b64(" \o Join(b.bytes) \o ")" >>]

\* file.read() on a file opened in text mode: universal newlines.
\* "\r\n" and a lone "\r" are read as "\n".
ReadKept(s, kept) ==
    [k \in 1..Cardinality(kept) |->
        The({IF c = "CR" THEN "LF" ELSE c : c \in {s[Nth(kept, k)]}})]
KeptChars(s) == {i \in 1..Len(s) : ~(s[i] = "LF" /\ i > 1 /\ s[i - 1] = "CR")}
ReadText(bytes) ==
    The({The({ReadKept(s, kept) : kept \in {KeptChars(s)}}) : s \in {bytes}})

\* file.write(s) on a file opened in text mode: the bytes that reach the disk.
WriteText(s) == encode(s)

\* Faulty variant: a gzip container, whose header carries the time of the run.
compress_gzip(package) ==
    b64encode(zlib_compress(encode(json_dumps(<<package, ToString(runs)>>))))

compress(package) == b64encode(zlib_compress(encode(json_dumps(package))))

\* ------------------------------------------------------------------ paths
Last(s) == s[Len(s)]
IsPrefix(p, s) == Len(p) <= Len(s) /\ SubSeq(s, 1, Len(p)) = p
removeprefix(s, p) == IF IsPrefix(p, s) THEN SubSeq(s, Len(p) + 1, Len(s)) ELSE s
os_path_join(a, b) == IF a # <<>> /\ Last(a) = "/" THEN a \o b ELSE a \o <<"/">> \o b

\* The components of a path string: split on "/", empty components dropped.
SplitFrom(s, starts) ==
    LET end(i) == CHOOSE j \in i..Len(s) :
                      /\ j = Len(s) \/ s[j + 1] = "/"
                      /\ \A k \in i..j : s[k] # "/"
    IN  [k \in 1..Cardinality(starts) |->
            The({SubSeq(s, i, end(i)) : i \in {Nth(starts, k)}})]
SplitStarts(s) == {i \in 1..Len(s) : s[i] # "/" /\ (i = 1 \/ s[i - 1] = "/")}
SplitPath(path) ==
    The({The({SplitFrom(s, starts) : starts \in {SplitStarts(s)}}) : s \in {path}})

SourcePath(name) ==
    PACKAGES_ROOT_SRC_DIR \o <<"/">> \o name \o <<"/">> \o PACKAGES_SRC_DIR \o <<"/">>

PoolFile(name, version) ==
    PACKAGES_POOL_DIR \o <<"/">> \o name \o <<".">> \o version \o <<".", "ccp">>

IndexPath == PACKAGES_POOL_DIR \o <<"/">> \o INDEX_FILE

K_version == <<"version">>
K_files == <<"files">>
K_content == <<"content">>
K_digest == <<"digest">>

\* --------------------------------------------------------- get_all_packages
\* os.scandir yields the entries in arbitrary order.
get_all_packages == Perms(Entries)

\* -------------------------------------------------------- get_package_files
\* os.walk, top-down: each directory's files, then its subdirectories; ord is
\* the order in which the directory listing yields file names.
RECURSIVE os_walk(_, _, _, _)
RECURSIVE os_walk_at(_, _, _, _)
RECURSIVE os_walk_dirs(_, _, _, _, _)
os_walk(tree, top, dir, ord) ==
    The({os_walk_at(tree, t[1], t[2], ord) : t \in {<<top, dir>>}})
os_walk_at(tree, top, dir, ord) ==
    LET files == SelectSeq(ord, LAMBDA f : (dir \o <<f>>) \in DOMAIN tree)
        dirs == SelectSeq(DirChain, LAMBDA d :
                    \E p \in DOMAIN tree : Len(p) > Len(dir) + 1
                                           /\ IsPrefix(dir \o <<d>>, p))
    IN  << <<top, files>> >> \o os_walk_dirs(tree, top, dir, dirs, ord)
os_walk_dirs(tree, top, dir, dirs, ord) ==
    IF dirs = <<>> THEN <<>>
    ELSE os_walk(tree, os_path_join(top, Head(dirs)), dir \o <<Head(dirs)>>, ord)
         \o os_walk_dirs(tree, top, dir, Tail(dirs), ord)

RECURSIVE Extend(_, _)
Extend(walked, path) ==
    IF walked = <<>> THEN <<>>
    ELSE LET root == Head(walked)[1]
             files == Head(walked)[2]
         IN  [i \in 1..Len(files) |-> removeprefix(root, path) \o <<"/">> \o files[i]]
             \o Extend(Tail(walked), path)

get_package_files(name, ord) ==
    LET path == SourcePath(name)
    IN  Extend(os_walk(sources[name], path, <<>>, ord), path)

\* ------------------------------------------------------------- get_manifest
\* Faulty variant: a default manifest stands in for a missing file.
get_manifest_default(name) ==
    LET file == manifests[name]
    IN  IF file.t = "absent" THEN PyDict(<< <<K_version, <<"0">> >> >>)
        ELSE IF file.t = "garbage" THEN Raise("JSONDecodeError")
        ELSE file.v

\* Faulty variant: FileNotFoundError is not caught.
get_manifest_uncaught(name) ==
    LET file == manifests[name]
    IN  IF file.t = "absent" THEN Raise("FileNotFoundError")
        ELSE IF file.t = "garbage" THEN Raise("JSONDecodeError")
        ELSE file.v

get_manifest(name) ==
    LET file == manifests[name]
    IN  IF file.t = "absent" THEN None
        ELSE IF file.t = "garbage" THEN Raise("JSONDecodeError")
        ELSE file.v

\* open(".../source/" + path).read() in build_package.
\* The file the path names, relative to the package's source directory.
resolve(name, path) ==
    LET comps == SplitPath(PACKAGES_ROOT_SRC_DIR \o <<"/">> \o name \o <<"/">>
                           \o PACKAGES_SRC_DIR \o <<"/">> \o path)
    IN  SubSeq(comps, 5, Len(comps))

read_source(name, rel) ==
    IF rel \notin DOMAIN sources[name] THEN Raise("FileNotFoundError")
    ELSE IF ~sources[name][rel].readable THEN Raise("OSError")
    ELSE [t |-> "str", v |-> ReadText(decode(sources[name][rel].content))]

\* build_package: manifest["files"] = {}.
\* Faulty variant: a files field already in the manifest is kept.
InitDocument_keep(m) == IF K_files \in DictKeys(m) THEN m ELSE DictSet(m, K_files, <<>>)

InitDocument(m) == DictSet(m, K_files, <<>>)

FileEntry(content) ==
    << <<K_content, content>>, <<K_digest, sha256_hexdigest(encode(content))>> >>

\* Faulty variant: the digest of the serialized document, before compression.
IndexEntry_plain(package, payload) ==
    << <<K_version, DictGet(package, K_version)>>,
       <<K_digest, sha256_hexdigest(encode(json_dumps(package)))>> >>

IndexEntry(package, payload) ==
    << <<K_version, DictGet(package, K_version)>>,
       <<K_digest, sha256_hexdigest(payload)>> >>

WriteFile(fs, path, bytes) ==
    [f \in DOMAIN fs \cup {path} |-> IF f = path THEN bytes ELSE fs[f]]

\* ------------------------------------------------------------------ inputs
Absent == [t |-> "absent", v |-> <<>>]
Garbage == [t |-> "garbage", v |-> <<>>]
Json(value) == [t |-> "json", v |-> value]

StaleFiles == << << <<"/", "old", ".", "txt">>,
                    << <<K_content, <<"old">> >>, <<K_digest, <<"stale">> >> >> >> >>

DictManifests ==
    {Json(PyDict(<< <<K_version, v>> >>)) : v \in Versions}
    \cup {Json(PyDict(<< <<K_files, StaleFiles>>, <<K_version, <<"1">> >> >>)),
          Json(PyDict(<< <<<<"author">>, <<"x">> >> >>))}
OtherManifests == {Absent, Garbage, Json(None), Json(PyList(<<>>))}
ManifestFiles == DictManifests \cup OtherManifests

FileBytes(fname) ==
    IF fname = FileNames[1] THEN encode(<<"hello">>)
    ELSE encode(<<"x", "CR", "LF", "y", "CR">>)

Dir(k) == SubSeq(DirChain, 1, k)
RelPaths == {Dir(k) \o <<f>> : k \in 0..MaxDepth, f \in Range(FileNames)}

\* The trees over the paths P with at most n files, at most one unreadable.
Trees(P, n) ==
    UNION { {[p \in S |-> [content |-> FileBytes(Last(p)), readable |-> p # u]]
                : u \in S \cup {<<>>}}
            : S \in {T \in SUBSET P : Cardinality(T) <= n} }

Versioned(v) == Json(PyDict(<< <<K_version, v>> >>))
RootFile == <<FileNames[1]>>

\* A package directory of the driver scenarios: its manifest and its tree.
PlainPkgs ==
    {[m |-> Versioned(v), s |-> t] : v \in Versions,
                                     t \in {x \in Trees({RootFile}, 1) :
                                               \A p \in DOMAIN x : x[p].readable}}
SpecialPkgs ==
    {[m |-> x, s |-> <<>>] : x \in ManifestFiles \ {Versioned(v) : v \in Versions}}
    \cup {[m |-> Versioned(<<"1">>), s |-> t] : t \in {x \in Trees({RootFile}, 1) :
                                               \E p \in DOMAIN x : ~x[p].readable}}

OldIndex ==
    WriteText(json_dumps(<< << <<"a">>, << <<K_version, <<"0">> >>,
                                           <<K_digest, <<"old">> >> >> >>,
                            << <<"gone">>, << <<K_version, <<"1">> >>,
                                              <<K_digest, <<"old">> >> >> >> >>))
Pools ==
    { [dir |-> FALSE, files |-> <<>>],
      [dir |-> TRUE, files |-> <<>>],
      [dir |-> TRUE, files |-> WriteFile(<<>>, IndexPath, OldIndex)] }

NoHist == [pool0 |-> <<>>, order |-> <<>>, walk |-> <<>>, wrote |-> <<>>, end |-> ""]

InitRun(pl) ==
    /\ poolDir = pl.dir
    /\ pool = pl.files
    /\ pc = "start"
    /\ queue = <<>>
    /\ status = [p \in Entries |-> "pending"]
    /\ manifest = <<>>
    /\ todo = <<>>
    /\ data = encode(<<>>)
    /\ packages = <<>>
    /\ err = <<>>
    /\ hist = [cur |-> [NoHist EXCEPT !.pool0 = pl.files], prev |-> NoHist]

\* Several package directories, at most MaxSpecial of them other than a
\* versioned manifest with readable files.
InitDriver ==
    \E cfg \in [PkgNames -> PlainPkgs \cup SpecialPkgs], pl \in Pools :
        /\ Cardinality({p \in PkgNames : cfg[p] \in SpecialPkgs}) <= MaxSpecial
        /\ manifests = [p \in PkgNames |-> cfg[p].m]
        /\ sources = [p \in PkgNames |-> cfg[p].s]
        /\ InitRun(pl)

\* One package with a deeper source tree.
InitFiles ==
    \E m \in ManifestFiles, s \in Trees(RelPaths, MaxFiles), pl \in Pools :
        /\ m \notin DictManifests => s = <<>>
        /\ manifests = [p \in {AllNames[1]} |-> m]
        /\ sources = [p \in {AllNames[1]} |-> s]
        /\ InitRun(pl)

Init == (InitDriver \/ InitFiles) /\ runs = 0
InitTwice == (InitDriver \/ InitFiles) /\ runs = 1

\* ----------------------------------------------------------------- actions
\* Faulty variant: the index is written in a finally clause.
Abort_finally(e) ==
    /\ pc' = "aborted"
    /\ err' = e
    /\ pool' = IF poolDir THEN WriteFile(pool, IndexPath, WriteText(json_dumps(packages)))
               ELSE pool
    /\ UNCHANGED <<inputs, queue, status, manifest, todo, data, packages, runs, hist>>

Abort(e) ==
    /\ pc' = "aborted"
    /\ err' = e
    /\ UNCHANGED <<inputs, pool, queue, status, manifest, todo, data, packages,
                   runs, hist>>

SetStatus(name, st) == status' = [status EXCEPT ![name] = st]

\* __main__: packages = {}; the iterator over get_all_packages() is created.
Scan ==
    /\ pc = "start"
    /\ \E order \in get_all_packages :
          /\ queue' = order
          /\ hist' = [hist EXCEPT !.cur.order = order]
    /\ packages' = <<>>
    /\ pc' = "loop"
    /\ UNCHANGED <<inputs, pool, status, manifest, todo, data, err, runs>>

\* write_package -> build_package -> get_manifest, up to the file loop.
LoadManifest ==
    /\ pc = "loop" /\ queue # <<>>
    /\ LET name == Head(queue)
           m == get_manifest(name)
       IN  CASE m.t = "raise" -> Abort(m.v)
             [] m = None ->
                  /\ SetStatus(name, "skipped")
                  /\ queue' = Tail(queue)
                  /\ UNCHANGED <<inputs, pool, pc, manifest, todo, data, packages,
                                 err, runs, hist>>
             [] m.t = "list" -> Abort(<<"TypeError">>)
             [] m.t = "dict" ->
                  \E paths \in {get_package_files(name, ord) : ord \in Perms(Range(FileNames))} :
                          /\ manifest' = InitDocument(m.v)
                          /\ todo' = paths
                          /\ hist' = [hist EXCEPT !.cur.walk = Append(@, <<name, paths>>)]
                          /\ SetStatus(name, "loaded")
                          /\ pc' = "assemble"
                          /\ UNCHANGED <<inputs, pool, queue, data, packages, err, runs>>

\* Faulty variant: a file that cannot be read makes the package skipped.
ReadFile_skip ==
    /\ pc = "assemble" /\ todo # <<>>
    /\ \E name \in {Head(queue)}, path \in {Head(todo)} :
       \E r \in {read_source(name, rel) : rel \in {resolve(name, path)}} :
           IF r.t = "raise"
           THEN /\ SetStatus(name, "skipped")
                /\ queue' = Tail(queue)
                /\ pc' = "loop"
                /\ todo' = <<>>
                /\ UNCHANGED <<inputs, pool, manifest, data, packages, err, runs, hist>>
           ELSE /\ \E entry \in {FileEntry(r.v)} :
                      manifest' = DictSet(manifest, K_files,
                                     DictSet(DictGet(manifest, K_files), path, entry))
                /\ todo' = Tail(todo)
                /\ UNCHANGED <<inputs, pool, pc, queue, status, data, packages, err,
                               runs, hist>>

\* build_package: one iteration of the loop over the collected paths.
ReadFile ==
    /\ pc = "assemble" /\ todo # <<>>
    /\ \E name \in {Head(queue)}, path \in {Head(todo)} :
       \E r \in {read_source(name, rel) : rel \in {resolve(name, path)}} :
           IF r.t = "raise" THEN Abort(r.v)
           ELSE /\ \E entry \in {FileEntry(r.v)} :
                      manifest' = DictSet(manifest, K_files,
                                     DictSet(DictGet(manifest, K_files), path, entry))
                /\ todo' = Tail(todo)
                /\ UNCHANGED <<inputs, pool, pc, queue, status, data, packages, err,
                               runs, hist>>

\* build_package returns the manifest.
Assembled ==
    /\ pc = "assemble" /\ todo = <<>>
    /\ SetStatus(Head(queue), "assembled")
    /\ pc' = "compress"
    /\ UNCHANGED <<inputs, pool, queue, manifest, todo, data, packages, err, runs, hist>>

\* write_package: data = compress(package).
Compress ==
    /\ pc = "compress"
    /\ data' = compress(manifest)
    /\ SetStatus(Head(queue), "encoded")
    /\ pc' = "write"
    /\ UNCHANGED <<inputs, pool, queue, manifest, todo, packages, err, runs, hist>>

\* write_package: open(<pool>/<name>.<version>.ccp, "w") and file.write.
WriteArchive ==
    /\ pc = "write"
    /\ LET name == Head(queue)
       IN  IF K_version \notin DictKeys(manifest) THEN Abort(<<"KeyError">>)
           ELSE IF ~poolDir THEN Abort(<<"FileNotFoundError">>)
           ELSE LET file == PoolFile(name, DictGet(manifest, K_version))
                    bytes == WriteText(decode(data))
                IN  /\ pool' = WriteFile(pool, file, bytes)
                    /\ hist' = [hist EXCEPT !.cur.wrote = Append(@, <<name, file, bytes, manifest>>)]
                    /\ SetStatus(name, "written")
                    /\ pc' = "return"
                    /\ UNCHANGED <<inputs, queue, manifest, todo, data, packages, err, runs>>

\* write_package returns {version, digest}; __main__ stores it.
AddIndex ==
    /\ pc = "return"
    /\ packages' = DictSet(packages, Head(queue), IndexEntry(manifest, data))
    /\ SetStatus(Head(queue), "indexed")
    /\ queue' = Tail(queue)
    /\ pc' = "loop"
    /\ UNCHANGED <<inputs, pool, manifest, todo, data, err, runs, hist>>

\* __main__: the index is written once the loop is over.
WriteIndex ==
    /\ pc = "loop" /\ queue = <<>>
    /\ IF ~poolDir THEN Abort(<<"FileNotFoundError">>)
       ELSE /\ pool' = WriteFile(pool, IndexPath, WriteText(json_dumps(packages)))
            /\ pc' = "done"
            /\ UNCHANGED <<inputs, queue, status, manifest, todo, data, packages, err,
                           runs, hist>>

\* The build is invoked again on the same input.
Rerun ==
    /\ pc \in {"done", "aborted"} /\ runs > 0
    /\ runs' = runs - 1
    /\ hist' = [cur |-> [NoHist EXCEPT !.pool0 = pool],
                prev |-> [hist.cur EXCEPT !.end = pc]]
    /\ pc' = "start"
    /\ queue' = <<>>
    /\ status' = [p \in Entries |-> "pending"]
    /\ manifest' = <<>>
    /\ todo' = <<>>
    /\ data' = encode(<<>>)
    /\ packages' = <<>>
    /\ err' = <<>>
    /\ UNCHANGED <<inputs, pool>>

Next ==
    \/ Scan
    \/ LoadManifest
    \/ ReadFile
    \/ Assembled
    \/ Compress
    \/ WriteArchive
    \/ AddIndex
    \/ WriteIndex

NextTwice == Next \/ Rerun

Spec == Init /\ [][Next]_vars
FairSpec == Spec /\ WF_vars(Next)
SpecTwice == InitTwice /\ [][NextTwice]_vars

\* ------------------------------------------------------------- observation
Wrote == hist.cur.wrote
Loaded(p) == manifests[p].v.v
WroteFor(p) == {i \in DOMAIN Wrote : Wrote[i][1] = p}
IndexWritten == IndexPath \in DOMAIN pool /\ pool[IndexPath] = WriteText(json_dumps(packages))
ManifestDict(p) == manifests[p].t = "json" /\ manifests[p].v.t = "dict"
WellFormed(p) == ManifestDict(p) /\ K_version \in DictKeys(Loaded(p))
AllReadable == \A p \in Entries : \A f \in DOMAIN sources[p] : sources[p][f].readable
HadOldIndex == IndexPath \in DOMAIN hist.cur.pool0

\* C1: a package whose manifest file is absent gets no archive written by the
\* run, and the index a completed run writes has no key for it.
C1_MissingManifestExcluded ==
    \A p \in Entries :
        manifests[p] = Absent =>
            /\ WroteFor(p) = {}
            /\ pc = "done" => IndexWritten /\ p \notin DictKeys(packages)

C1_Witness ==
    /\ pc = "done"
    /\ \E p \in Entries : manifests[p] = Absent /\ status[p] = "skipped"
    /\ \E q \in Entries : status[q] = "indexed"

\* C2: the digest write_package returns for a package is the SHA-256 of the
\* encoded payload the same call wrote to the package's .ccp file, and not of
\* the serialized document.
C2_DigestOfWrittenPayload ==
    \A p \in Entries :
        status[p] = "indexed" =>
            /\ p \in DictKeys(packages)
            /\ \E i \in WroteFor(p) :
                  /\ \A j \in WroteFor(p) : j = i
                  /\ Wrote[i][2] = PoolFile(p, DictGet(Loaded(p), K_version))
                  /\ DictGet(DictGet(packages, p), K_digest) = sha256_hexdigest(Wrote[i][3])
                  /\ DictGet(DictGet(packages, p), K_digest)
                        # sha256_hexdigest(encode(json_dumps(Wrote[i][4])))
                  /\ \A k \in DictKeys(DictGet(Wrote[i][4], K_files)) :
                        DictGet(DictGet(packages, p), K_digest)
                           # DictGet(DictGet(DictGet(Wrote[i][4], K_files), k), K_digest)

C2_Witness ==
    \E p \in Entries :
        /\ status[p] = "indexed"
        /\ sources[p] # <<>>
        /\ WroteFor(p) # {}

\* C3: the document build_package returns has one files entry per file of the
\* source tree and no other, each with the file's text and the SHA-256 of
\* that text; a files field of the loaded manifest is not carried over.
C3_FilesMapping ==
    pc = "compress" =>
        LET name == Head(queue)
            tree == sources[name]
            files == DictGet(manifest, K_files)
        IN  /\ Len(files) = Cardinality(DOMAIN tree)
            /\ \A f \in DOMAIN tree :
                  \E i \in DOMAIN files :
                      /\ SplitPath(files[i][1]) = f
                      /\ DictGet(files[i][2], K_content) = ReadText(decode(tree[f].content))
                      /\ DictGet(files[i][2], K_digest)
                            = sha256_hexdigest(encode(DictGet(files[i][2], K_content)))
                      /\ DictKeys(files[i][2]) = {K_content, K_digest}
            /\ DictKeys(manifest) = DictKeys(Loaded(name)) \cup {K_files}
            /\ \A k \in DictKeys(Loaded(name)) \ {K_files} :
                  DictGet(manifest, k) = DictGet(Loaded(name), k)

C3_Witness ==
    /\ pc = "compress"
    /\ Cardinality(DOMAIN sources[Head(queue)]) = MaxFiles
    /\ \E f \in DOMAIN sources[Head(queue)] : Len(f) > 1
    /\ K_files \in DictKeys(Loaded(Head(queue)))

\* C4: when every manifest is absent or well-formed and nothing fails, the
\* run terminates having written an index whose keys are exactly the packages
\* with a manifest, each with the version and digest of its archive, and
\* nothing of an older index.
GoodInput ==
    /\ poolDir
    /\ AllReadable
    /\ \A p \in Entries : manifests[p] = Absent \/ WellFormed(p)

IndexExact ==
    /\ IndexWritten
    /\ DictKeys(packages) = {p \in Entries : manifests[p] # Absent}
    /\ Len(packages) = Cardinality(DictKeys(packages))
    /\ \A p \in Entries : manifests[p] = Absent => status[p] = "skipped"
    /\ \A p \in DictKeys(packages) :
          \E i \in WroteFor(p) :
              DictGet(packages, p) =
                  << <<K_version, DictGet(Loaded(p), K_version)>>,
                     <<K_digest, sha256_hexdigest(Wrote[i][3])>> >>

C4_IndexRebuilt == GoodInput => <>(pc = "done" /\ IndexExact)

C4_Witness ==
    /\ pc = "done"
    /\ GoodInput
    /\ HadOldIndex
    /\ \E p \in Entries : status[p] = "skipped"
    /\ \E q \in Entries : status[q] = "indexed"

\* C5: the step that aborts the run leaves the pool as it is: the index is
\* the one the run started with (or none), every archive written earlier in
\* the run is still there, the packages after the failing one stay pending,
\* and nothing happens after the abort.
C5_AbortStep ==
    /\ pc # "aborted"
    /\ pc' = "aborted" =>
          /\ pool' = pool
          /\ (IndexPath \in DOMAIN pool') = HadOldIndex
          /\ HadOldIndex => pool'[IndexPath] = hist.cur.pool0[IndexPath]
          /\ \A i \in DOMAIN Wrote : Wrote[i][2] \in DOMAIN pool'
          /\ \A i \in 2..Len(queue') : status'[queue'[i]] = "pending"
          /\ packages' = packages

C5_NoIndexNoRollback == [][C5_AbortStep]_vars

C5_Witness ==
    /\ pc = "aborted"
    /\ Wrote # <<>>
    /\ HadOldIndex
    /\ pool[IndexPath] = OldIndex

\* C6: a package is skipped only when its manifest file is absent.
C6_SkippedOnlyWhenAbsent ==
    \A p \in Entries : status[p] = "skipped" => manifests[p] = Absent

\* C7: every path get_package_files returns, and so every key of a
\* document's files mapping, begins with "/".
C7_LeadingSlash ==
    /\ \A i \in DOMAIN todo : Head(todo[i]) = "/"
    /\ manifest # <<>> =>
          \A k \in DictKeys(DictGet(manifest, K_files)) : Head(k) = "/"

\* C8 as stated: two completed runs on unchanged input in which every
\* package's file paths come in the same order leave a byte-identical pool.
BothRunsDone == pc = "done" /\ runs = 0 /\ hist.prev.end = "done"
SameFileOrder ==
    \A i \in DOMAIN hist.prev.walk, j \in DOMAIN hist.cur.walk :
        hist.prev.walk[i][1] = hist.cur.walk[j][1] => hist.prev.walk[i][2] = hist.cur.walk[j][2]
SamePackageOrder == hist.prev.order = hist.cur.order

C8_Original == (BothRunsDone /\ SameFileOrder) => pool = hist.cur.pool0

\* C8 amended: two completed runs on unchanged input in which the packages are
\* enumerated in the same order and every package's file paths come in the
\* same order leave a byte-identical pool: every archive and the index.
C8_SameOrderSamePool ==
    (BothRunsDone /\ SameFileOrder /\ SamePackageOrder) => pool = hist.cur.pool0

C8_Witness ==
    /\ BothRunsDone
    /\ SameFileOrder /\ SamePackageOrder
    /\ Len(packages) >= 2
    /\ \E i \in DOMAIN hist.cur.walk : hist.cur.walk[i][2] # <<>>

\* C9: a package's build moves pending -> loaded -> assembled -> encoded ->
\* written -> indexed or pending -> skipped, never back; the archive is
\* written in the step encoded -> written, of the fully assembled document;
\* the index entry is added in the step written -> indexed; a package leaves
\* pending only when every other one is pending, indexed or skipped.
Lifecycle ==
    { <<"pending", "loaded">>, <<"pending", "skipped">>, <<"loaded", "assembled">>,
      <<"assembled", "encoded">>, <<"encoded", "written">>, <<"written", "indexed">> }

C9_Step ==
    /\ \A p \in Entries :
          status'[p] # status[p] =>
              /\ <<status[p], status'[p]>> \in Lifecycle
              /\ \A q \in Entries \ {p} :
                    status[q] \in {"pending", "indexed", "skipped"} /\ status'[q] = status[q]
              /\ status'[p] = "written" =>
                    /\ pool'[PoolFile(p, DictGet(Loaded(p), K_version))] = data
                    /\ data = compress(manifest)
                    /\ DictKeys(manifest) = DictKeys(Loaded(p)) \cup {K_files}
                    /\ Len(DictGet(manifest, K_files)) = Cardinality(DOMAIN sources[p])
    /\ (pool' # pool /\ pc' # "done") =>
          \E p \in Entries : status[p] = "encoded" /\ status'[p] = "written"
    /\ (packages' # packages) =>
          \E p \in Entries : /\ status[p] = "written" /\ status'[p] = "indexed"
                             /\ DictKeys(packages') = DictKeys(packages) \cup {p}

C9_Lifecycle == [][C9_Step]_vars

C9_Witness ==
    \E p, q \in Entries :
        /\ status[p] = "indexed"
        /\ status[q] = "written"
        /\ sources[q] # <<>>

\* C10: at the end of a completed run, every index entry {version v, digest
\* d} of a package n has its pool file n.v.ccp, whose content hashes to d.
C10_IndexMatchesPool ==
    pc = "done" =>
        /\ IndexWritten
        /\ \A n \in DictKeys(packages) :
              LET file == PoolFile(n, DictGet(DictGet(packages, n), K_version))
              IN  /\ file \in DOMAIN pool
                  /\ sha256_hexdigest(pool[file]) = DictGet(DictGet(packages, n), K_digest)
====
